---- MODULE Spec2Model ----
(***************************************************************************)
(* Model of src/main.py: the GET /album handler of the jazz album profile  *)
(* API, its base release lookup, its five enrichment fetchers run under    *)
(* asyncio.gather, the cover-archive fallback and the merge into Profile.  *)
(*                                                                         *)
(* JSON objects are functions from key strings to values, so that a key    *)
(* can be absent; JSON arrays are sequences.  Text the code slices, strips *)
(* or splits is a sequence of one-character strings; text it only copies   *)
(* or concatenates is a string.                                            *)
(***************************************************************************)
EXTENDS Integers, Sequences, FiniteSets, TLC

VARIABLES
    pc,               \* position of the album() coroutine
    mb_release_data,  \* the resolved base release, NoValue before
    fst,              \* state of each coroutine handed to asyncio.gather
    tasks,            \* what each coroutine returned, by gather position
    reqs,             \* every upstream request issued, in order
    got,              \* the answer each upstream endpoint gave
    status,           \* HTTP status of the response, 0 while none is sent
    profile,          \* the Profile returned, NoValue when none
    query             \* the album and artist asked for

vars == <<pc, mb_release_data, fst, tasks, reqs, got, status, profile, query>>

(***************************************************************************)
(* Python values                                                           *)
(***************************************************************************)
EmptyDict == <<>>
NoValue == [none |-> TRUE]

\* dict.get(k, default)
Get(d, k, default) == IF k \in DOMAIN d THEN d[k] ELSE default

\* x or default, for dicts and lists: empty is falsy
OrElse(x, default) == IF DOMAIN x = {} THEN default ELSE x

Min(a, b) == IF a < b THEN a ELSE b

\* s[:n]
Take(s, n) == SubSeq(s, 1, Min(n, Len(s)))

RECURSIVE Str(_)
\* the string spelled by a sequence of characters
Str(cs) == IF cs = <<>> THEN "" ELSE Head(cs) \o Str(Tail(cs))

Whitespace == {" ", "\n", "\r", "\t", "\f"}

RECURSIVE LStrip(_)
LStrip(cs) == IF cs # <<>> /\ Head(cs) \in Whitespace THEN LStrip(Tail(cs)) ELSE cs

RECURSIVE RStrip(_)
RStrip(cs) ==
    IF cs # <<>> /\ cs[Len(cs)] \in Whitespace
    THEN RStrip(SubSeq(cs, 1, Len(cs) - 1))
    ELSE cs

\* str.strip()
Strip(cs) == RStrip(LStrip(cs))

\* what a call returns, or the exception it raises
Return(v) == [raised |-> FALSE, val |-> v]
Raise(e) == [raised |-> TRUE, exc |-> e]

(***************************************************************************)
(* HTTP answers: the request times out (or the network fails), or a        *)
(* response arrives with a status and a body that is JSON or is not.       *)
(***************************************************************************)
Timeout == [kind |-> "timeout"]
Json(code, data) == [kind |-> "resp", status |-> code, json |-> TRUE, data |-> data]
NotJson(code) == [kind |-> "resp", status |-> code, json |-> FALSE]
NoAnswer == [kind |-> "none"]

\* (await c.get(url, timeout=...)).json()
GetJson(r) ==
    IF r.kind = "timeout" THEN Raise("TimeoutException")
    ELSE IF ~r.json THEN Raise("JSONDecodeError")
    ELSE Return(r.data)

\* a page of HTML: its text nodes, each a sequence of words
Html(code, text) == [kind |-> "resp", status |-> code, json |-> FALSE, text |-> text]

(***************************************************************************)
(* Cover Art Archive fallback                                              *)
(***************************************************************************)
CaaUrl(release_group_id) ==
    "https://coverartarchive.org/release-group/" \o release_group_id \o "/front-500"

\* the fallback with the reachability check left out
cover_from_caa_unverified(release_group_id, r) ==
    IF r.kind = "timeout" THEN Raise("TimeoutException")
    ELSE Return(CaaUrl(release_group_id))

cover_from_caa(release_group_id, r) ==
    IF r.kind = "timeout" THEN Raise("TimeoutException")
    ELSE Return(IF r.status = 200 THEN CaaUrl(release_group_id) ELSE "")

(***************************************************************************)
(* MusicBrainz full track list                                             *)
(***************************************************************************)
TrackLine(t) == ToString(t["position"]) \o ". " \o t["title"]

RECURSIVE MediumTracks(_)
\* the inner loop over one medium's tracks
MediumTracks(ts) ==
    IF ts = <<>> THEN Return(<<>>)
    ELSE IF ~({"position", "title"} \subseteq DOMAIN Head(ts)) THEN Raise("KeyError")
    ELSE LET rest == MediumTracks(Tail(ts))
         IN IF rest.raised THEN rest ELSE Return(<<TrackLine(Head(ts))>> \o rest.val)

RECURSIVE MediaTracks(_)
\* the outer loop over the media
MediaTracks(media) ==
    IF media = <<>> THEN Return(<<>>)
    ELSE LET first == MediumTracks(Get(Head(media), "tracks", <<>>))
             rest == MediaTracks(Tail(media))
         IN IF first.raised THEN first
            ELSE IF rest.raised THEN rest
            ELSE Return(first.val \o rest.val)

mb_tracklist(r) ==
    LET data == GetJson(r)
    IN IF data.raised THEN data ELSE MediaTracks(Get(data.val, "media", <<>>))

(***************************************************************************)
(* Wikipedia "recorded at ..." sentence.  The extract is a sequence of     *)
(* words and separators; ". " is the separator text.split(". ") cuts at.   *)
(***************************************************************************)
SentenceSep == ". "

RECURSIVE Split(_, _)
\* text.split(". "): the sentences, the separators dropped
Split(text, cur) ==
    IF text = <<>> THEN <<cur>>
    ELSE IF Head(text) = SentenceSep THEN <<cur>> \o Split(Tail(text), <<>>)
    ELSE Split(Tail(text), Append(cur, Head(text)))

Mentions(sent, word) == \E i \in 1..Len(sent) : sent[i] = word

RECURSIVE FirstSession(_)
\* the first sentence that mentions the recording, stripped, with its full stop
FirstSession(sents) ==
    IF sents = <<>> THEN ""
    ELSE IF Mentions(Head(sents), "recorded") \/ Mentions(Head(sents), "studio")
    THEN Str(Strip(Head(sents))) \o "."
    ELSE FirstSession(Tail(sents))

wiki_session(r) ==
    IF r.kind = "timeout" THEN Raise("TimeoutException")
    ELSE IF r.status # 200 THEN Return("")
    ELSE IF ~r.json THEN Raise("JSONDecodeError")
    ELSE Return(FirstSession(Split(Get(r.data, "extract", <<>>), <<>>)))

(***************************************************************************)
(* "Stand-out tracks" scrape.  The page is the sequence of its text nodes  *)
(* (the text between a '>' and the next '<'); a node is a sequence of      *)
(* words.                                                                  *)
(***************************************************************************)
SnippetReach == 120

RECURSIVE Width(_)
Width(node) == IF node = <<>> THEN 0 ELSE Len(Head(node)) + Width(Tail(node))

\* re.I: the word in any case
IsStandout(w) == w \in {"standout", "Standout", "STANDOUT"}

\* [^<]{0,120}standout[^<]{0,120} spans the whole node
NodeMatches(node) ==
    \E i \in 1..Len(node) :
        /\ IsStandout(node[i])
        /\ Width(SubSeq(node, 1, i - 1)) <= SnippetReach
        /\ Width(SubSeq(node, i + 1, Len(node))) <= SnippetReach

\* html.unescape, word by word
Unescape(w) == IF w = "&amp;" THEN "&" ELSE IF w = "&quot;" THEN "\"" ELSE w

UnescapeAll(node) == [i \in 1..Len(node) |-> Unescape(node[i])]

RECURSIVE Search(_)
\* re.search: the leftmost node that matches, or none
Search(page) ==
    IF page = <<>> THEN ""
    ELSE IF NodeMatches(Head(page)) THEN Str(Strip(UnescapeAll(Head(page))))
    ELSE Search(Tail(page))

standout_from_web(r) ==
    IF r.kind = "timeout" THEN Raise("TimeoutException") ELSE Return(Search(r.text))

(***************************************************************************)
(* MusicBrainz basic calls                                                 *)
(***************************************************************************)
mb_release(r) ==
    LET data == GetJson(r)
    IN IF data.raised THEN data
       ELSE IF Get(data.val, "releases", <<>>) = <<>> THEN Raise("ValueError")
       ELSE Return(data.val["releases"][1])

mb_artist_dates(r) ==
    LET data == GetJson(r)
        life == Get(data.val, "life-span", EmptyDict)
    IN IF data.raised THEN data
       ELSE Return([born |-> Get(life, "begin", ""),
                    died |-> Get(life, "end", ""),
                    area |-> Get(OrElse(Get(data.val, "area", EmptyDict), EmptyDict),
                                 "name", "")])

(***************************************************************************)
(* Discogs master data: the search, then the master it names               *)
(***************************************************************************)
discogs_search(r) ==
    LET search == GetJson(r)
    IN IF search.raised THEN search
       ELSE IF "results" \notin DOMAIN search.val THEN Raise("KeyError")
       ELSE IF search.val["results"] = <<>> THEN Raise("IndexError")
       ELSE IF "id" \notin DOMAIN search.val["results"][1] THEN Raise("KeyError")
       ELSE Return(search.val["results"][1]["id"])

discogs_master(r) == GetJson(r)

(***************************************************************************)
(* The merge of album(): year, catalogue number, personnel, cover, notes   *)
(***************************************************************************)
ReleaseGroup(release) == OrElse(Get(release, "release-group", EmptyDict), EmptyDict)

\* the year with the release's own date preferred
YearPrefersRelease(release) ==
    LET own == Take(Get(release, "date", <<>>), 4)
    IN IF own # <<>> THEN own
       ELSE Take(Get(ReleaseGroup(release), "first-release-date", <<>>), 4)

\* year (use first-release date)
Year(release) ==
    LET first == Take(Get(ReleaseGroup(release), "first-release-date", <<>>), 4)
    IN IF first # <<>> THEN first ELSE Take(Get(release, "date", <<>>), 4)

\* catalogue number
Catno(release) ==
    IF Get(release, "label-info", <<>>) # <<>>
    THEN Get(release["label-info"][1], "catalog-number", "")
    ELSE ""

PersonnelPlaceholder == "Personnel not listed"

\* the separator between name and role (an em dash in the source)
Dash == " -- "

PrimaryCredit(p) ==
    LET role == Strip(Get(p, "role", <<>>))
    IN p["name"] \o Dash \o (IF role = <<>> THEN "primary" ELSE Str(role))

SupportingCredit(p) == p["name"] \o Dash \o Str(Strip(Get(p, "role", <<>>)))

\* the personnel with "or" applied to the supporting credits alone
PersonnelMisgrouped(disc) ==
    LET artists == Get(disc, "artists", <<>>)
        extraartists == Get(disc, "extraartists", <<>>)
        supporting == [i \in 1..Len(extraartists) |-> SupportingCredit(extraartists[i])]
    IN IF \E i \in 1..Len(artists) : "name" \notin DOMAIN artists[i]
       THEN Raise("KeyError")
       ELSE IF \E i \in 1..Len(extraartists) : "name" \notin DOMAIN extraartists[i]
       THEN Raise("KeyError")
       ELSE Return([i \in 1..Len(artists) |-> PrimaryCredit(artists[i])]
                   \o (IF supporting # <<>> THEN supporting ELSE <<PersonnelPlaceholder>>))

\* personnel (main + sidemen)
Personnel(disc) ==
    LET artists == Get(disc, "artists", <<>>)
        extraartists == Get(disc, "extraartists", <<>>)
        credits == [i \in 1..Len(artists) |-> PrimaryCredit(artists[i])]
                   \o [i \in 1..Len(extraartists) |-> SupportingCredit(extraartists[i])]
    IN IF \E i \in 1..Len(artists) : "name" \notin DOMAIN artists[i]
       THEN Raise("KeyError")
       ELSE IF \E i \in 1..Len(extraartists) : "name" \notin DOMAIN extraartists[i]
       THEN Raise("KeyError")
       ELSE Return(IF credits # <<>> THEN credits ELSE <<PersonnelPlaceholder>>)

IsPrimary(img) == Get(img, "type", "") = "primary"

\* next((img["uri"] for img in images if img.get("type") == "primary"), "")
PrimaryImage(disc) ==
    LET images == Get(disc, "images", <<>>)
        primaries == {i \in 1..Len(images) : IsPrimary(images[i])}
        first == CHOOSE i \in primaries : \A j \in primaries : i <= j
    IN IF primaries = {} THEN Return("")
       ELSE IF "uri" \notin DOMAIN images[first] THEN Raise("KeyError")
       ELSE Return(images[first]["uri"])

\* the characters str.splitlines() cuts at (a line feed after a carriage
\* return belongs to the same line break)
LineBreaks == {"\n", "\r", "\f"}

RECURSIVE SplitLines(_)
\* str.splitlines()
SplitLines(s) ==
    LET breaks == {i \in 1..Len(s) : s[i] \in LineBreaks}
        b == CHOOSE i \in breaks : \A j \in breaks : i <= j
        e == IF s[b] = "\r" /\ b < Len(s) /\ s[b + 1] = "\n" THEN b + 1 ELSE b
    IN IF s = <<>> THEN <<>>
       ELSE IF breaks = {} THEN <<s>>
       ELSE <<SubSeq(s, 1, b - 1)>> \o SplitLines(SubSeq(s, e + 1, Len(s)))

RECURSIVE JoinSpace(_)
\* " ".join(lines)
JoinSpace(lines) ==
    IF lines = <<>> THEN <<>>
    ELSE IF Len(lines) = 1 THEN lines[1]
    ELSE lines[1] \o <<" ">> \o JoinSpace(Tail(lines))

NotesLimit == 2000

\* the excerpt with the slice applied to the lines instead of the characters
LongTextLineCut(disc) == JoinSpace(Take(SplitLines(Get(disc, "notes", <<>>)), NotesLimit))

\* Discogs liner-note excerpt
LongText(disc) == Take(JoinSpace(SplitLines(Get(disc, "notes", <<>>))), NotesLimit)

\* Profile(...)
MakeProfile(q, release, results, cover) ==
    [artist |-> [name |-> q.artist,
                 born |-> results[1]["born"],
                 died |-> results[1]["died"],
                 area |-> results[1]["area"]],
     album |-> [title |-> q.album,
                year |-> Str(Year(release)),
                catalogue |-> Catno(release)],
     personnel |-> Personnel(results[2]).val,
     quotes |-> <<>>,
     cover_url |-> cover,
     long_text |-> LongText(results[2]),
     tracks |-> results[3],
     session_info |-> results[4],
     standout_notes |-> results[5]]

(***************************************************************************)
(* The upstream answers the handler is run against                         *)
(***************************************************************************)
Albums == {"Kind of Blue"}
Artists == {"Miles Davis"}

Date1959 == <<"1", "9", "5", "9", "-", "0", "8", "-", "1", "7">>
Date1960 == <<"1", "9", "6", "0">>

ArtistCredit == <<[artist |-> [id |-> "a1"]]>>

ReleaseFull ==
    ("id" :> "r1") @@ ("artist-credit" :> ArtistCredit)
    @@ ("release-group" :> (("id" :> "rg1") @@ ("first-release-date" :> Date1959)))
    @@ ("date" :> Date1960)
    @@ ("label-info" :> <<("catalog-number" :> "CL 1355")>>)

ReleaseBare == ("id" :> "r2") @@ ("artist-credit" :> ArtistCredit)

ReleaseNoCredit == ("id" :> "r3") @@ ("date" :> Date1960)

Releases == {ReleaseFull, ReleaseBare, ReleaseNoCredit}

ReleaseAnswers ==
    {Timeout, NotJson(503), Json(400, [error |-> "Bad Request"]),
     Json(200, [releases |-> <<>>])}
    \cup {Json(200, [releases |-> <<rel>>]) : rel \in Releases}

ArtistAnswers ==
    {Timeout, NotJson(503), Json(404, [error |-> "Not Found"]),
     Json(200, ("life-span" :> [begin |-> "1926-05-26"])),
     Json(200, ("life-span" :> [begin |-> "1926-05-26", end |-> "1991-09-28"])
               @@ ("area" :> [name |-> "United States"]))}

SearchAnswers ==
    {Timeout, Json(401, [message |-> "You must authenticate."]),
     Json(200, [results |-> <<>>]),
     Json(200, [results |-> <<[id |-> "m1"]>>])}

MasterFull ==
    [artists |-> <<[name |-> "Miles Davis"]>>,
     extraartists |-> <<[name |-> "Bill Evans", role |-> <<"P", "i", "a", "n", "o", " ">>]>>,
     images |-> <<[type |-> "secondary", uri |-> "https://img/2"],
                  [type |-> "primary", uri |-> "https://img/1"]>>,
     notes |-> <<"A", "\n", "B", "\r", "\n", "C">>]

MasterNoImage ==
    [artists |-> <<[name |-> "Miles Davis", role |-> <<" ">>]>>,
     images |-> <<[type |-> "secondary", uri |-> "https://img/2"]>>]

MasterBadCredit == [extraartists |-> <<[role |-> <<"B", "a", "s", "s">>]>>]

Masters == {MasterFull, MasterNoImage, MasterBadCredit}

MasterAnswers ==
    {Timeout, Json(404, [message |-> "Master Release not found."])}
    \cup {Json(200, m) : m \in Masters}

TrackAnswers ==
    {Timeout, Json(404, [error |-> "Not Found"]),
     Json(200, [media |-> <<[tracks |-> <<[position |-> 1, title |-> "So What"],
                                          [position |-> 2, title |-> "Freddie Freeloader"]>>],
                            [format |-> "CD"]>>]),
     Json(200, [media |-> <<[tracks |-> <<[position |-> 1]>>]>>])}

WikiAnswers ==
    {Timeout, Json(404, [title |-> "Not found."]), Json(200, [title |-> "Kind of Blue"]),
     Json(200, [extract |-> <<"Kind", " ", "of", " ", "Blue", " ", "is", " ", "an", " ",
                              "album", SentenceSep, " ", "It", " ", "was", " ", "recorded",
                              " ", "in", " ", "1959", ".">>])}

WebAnswers ==
    {Timeout, Html(200, <<<<"Kind", " ", "of", " ", "Blue">>, <<"review">>>>),
     Html(200, <<<<"reviews">>, <<" ", "The", " ", "Standout", " ", "is", " ", "So", " ",
                                  "What", " ", "&amp;", " ", "more", " ">>>>)}

CaaAnswers == {Timeout, NotJson(200), NotJson(307), NotJson(404)}

(***************************************************************************)
(* The coroutines of asyncio.gather and the endpoints they call            *)
(***************************************************************************)
Fetchers ==
    <<"mb_artist_dates", "discogs_master", "mb_tracklist", "wiki_session",
      "standout_from_web">>

FetcherSet == {Fetchers[i] : i \in 1..Len(Fetchers)}

SimpleFetchers == FetcherSet \ {"discogs_master"}

Endpoints ==
    {"release_search", "artist", "database_search", "masters", "release",
     "page_summary", "duckduckgo", "coverartarchive"}

EnrichmentEndpoints == Endpoints \ {"release_search"}

\* the endpoint a coroutine calls first
EndpointOf(f) ==
    CASE f = "mb_artist_dates" -> "artist"
      [] f = "discogs_master" -> "database_search"
      [] f = "mb_tracklist" -> "release"
      [] f = "wiki_session" -> "page_summary"
      [] f = "standout_from_web" -> "duckduckgo"

AnswersOf(f) ==
    CASE f = "mb_artist_dates" -> ArtistAnswers
      [] f = "mb_tracklist" -> TrackAnswers
      [] f = "wiki_session" -> WikiAnswers
      [] f = "standout_from_web" -> WebAnswers

\* what the coroutine makes of the answer
Fetch(f, r) ==
    CASE f = "mb_artist_dates" -> mb_artist_dates(r)
      [] f = "mb_tracklist" -> mb_tracklist(r)
      [] f = "wiki_session" -> wiki_session(r)
      [] f = "standout_from_web" -> standout_from_web(r)

Exceptions ==
    {"TimeoutException", "JSONDecodeError", "ValueError", "KeyError", "IndexError"}

\* except ValueError
HandlerCatchesValueError(exc) == exc = "ValueError"

\* except Exception
HandlerCatches(exc) == exc \in Exceptions

\* mb_release_data["artist-credit"][0]["artist"]["id"]
ArtistId(release) ==
    IF "artist-credit" \notin DOMAIN release THEN Raise("KeyError")
    ELSE IF release["artist-credit"] = <<>> THEN Raise("IndexError")
    ELSE IF "artist" \notin DOMAIN release["artist-credit"][1] THEN Raise("KeyError")
    ELSE IF "id" \notin DOMAIN release["artist-credit"][1]["artist"] THEN Raise("KeyError")
    ELSE Return(release["artist-credit"][1]["artist"]["id"])

Request(ep, key) == [ep |-> ep, key |-> key]

\* the requests the five coroutines open with, in the order gather starts them
FirstRequests(q, release) ==
    <<Request("artist", ArtistId(release).val),
      Request("database_search", q.album \o " " \o q.artist),
      Request("release", release["id"]),
      Request("page_summary", q.album \o " (" \o q.artist \o " album)"),
      Request("duckduckgo", "\"" \o q.album \o "\" \"" \o q.artist \o "\" review")>>

\* asyncio.gather files a result under the position of its coroutine
Position(f) == CHOOSE i \in 1..Len(Fetchers) : Fetchers[i] = f

\* results filed as they arrive, for the two coroutines that return a sentence
GatherSlotAsCompleted(f, finished) ==
    IF f \in {"wiki_session", "standout_from_web"}
    THEN 4 + Cardinality(finished \cap {"wiki_session", "standout_from_web"})
    ELSE Position(f)

GatherSlot(f, finished) == Position(f)

Finished == {f \in FetcherSet : fst[f] = "done"}

\* artist_info, disc, tracks, session_info, standout = tasks
Results == [i \in 1..Len(Fetchers) |-> tasks[i].val]

(***************************************************************************)
(* The handler                                                             *)
(***************************************************************************)
Init ==
    /\ pc = "idle"
    /\ query = NoValue
    /\ mb_release_data = NoValue
    /\ fst = [f \in FetcherSet |-> "unborn"]
    /\ tasks = [i \in 1..Len(Fetchers) |-> NoValue]
    /\ reqs = <<>>
    /\ got = [e \in Endpoints |-> NoAnswer]
    /\ status = 0
    /\ profile = NoValue

\* the handler with the encyclopedia fetch started beside the base lookup
AlbumEager(album, artist) ==
    /\ pc = "idle"
    /\ query' = [album |-> album, artist |-> artist]
    /\ reqs' = <<Request("release_search", album \o " " \o artist),
                 Request("page_summary", album \o " (" \o artist \o " album)")>>
    /\ fst' = [fst EXCEPT !["wiki_session"] = "waiting"]
    /\ pc' = "mb_release"
    /\ UNCHANGED <<mb_release_data, tasks, got, status, profile>>

\* GET /album?album=...&artist=...: the handler awaits mb_release
Album(album, artist) ==
    /\ pc = "idle"
    /\ query' = [album |-> album, artist |-> artist]
    /\ reqs' = Append(reqs, Request("release_search", album \o " " \o artist))
    /\ pc' = "mb_release"
    /\ UNCHANGED <<mb_release_data, fst, tasks, got, status, profile>>

\* mb_release returns or raises; on a release the handler starts the gather
MbReleaseReturns(r) ==
    LET release == mb_release(r)
    IN /\ pc = "mb_release"
       /\ got' = [got EXCEPT !["release_search"] = r]
       /\ IF release.raised
          THEN /\ status' = IF HandlerCatches(release.exc) THEN 404 ELSE 500
               /\ pc' = "done"
               /\ UNCHANGED <<mb_release_data, fst, reqs>>
          ELSE /\ mb_release_data' = release.val
               /\ IF ArtistId(release.val).raised \/ "id" \notin DOMAIN release.val
                  THEN /\ status' = 500
                       /\ pc' = "done"
                       /\ UNCHANGED <<fst, reqs>>
                  ELSE /\ fst' = [f \in FetcherSet |-> "waiting"]
                       /\ reqs' = reqs \o FirstRequests(query, release.val)
                       /\ pc' = "gather"
                       /\ UNCHANGED status
       /\ UNCHANGED <<tasks, profile, query>>

\* a coroutine that asks again when its call fails
FetchReturnsRetrying(f, r) ==
    LET out == Fetch(f, r)
    IN /\ fst[f] = "waiting"
       /\ got' = [got EXCEPT ![EndpointOf(f)] = r]
       /\ IF out.raised
          THEN /\ reqs' = Append(reqs, Request(EndpointOf(f), "again"))
               /\ UNCHANGED <<fst, tasks>>
          ELSE /\ fst' = [fst EXCEPT ![f] = "done"]
               /\ tasks' = [tasks EXCEPT ![GatherSlot(f, Finished)] = out]
               /\ UNCHANGED reqs
       /\ UNCHANGED <<pc, mb_release_data, status, profile, query>>

\* one of the four single-request coroutines gets its answer
FetchReturns(f, r) ==
    LET out == Fetch(f, r)
    IN /\ fst[f] = "waiting"
       /\ got' = [got EXCEPT ![EndpointOf(f)] = r]
       /\ IF out.raised
          THEN /\ fst' = [fst EXCEPT ![f] = "raised"]
               /\ UNCHANGED tasks
          ELSE /\ fst' = [fst EXCEPT ![f] = "done"]
               /\ tasks' = [tasks EXCEPT ![GatherSlot(f, Finished)] = out]
       /\ UNCHANGED <<pc, mb_release_data, reqs, status, profile, query>>

\* discogs_master gets the search answer and asks for the master it names
DiscogsSearchReturns(r) ==
    LET master_id == discogs_search(r)
    IN /\ fst["discogs_master"] = "waiting"
       /\ got' = [got EXCEPT !["database_search"] = r]
       /\ IF master_id.raised
          THEN /\ fst' = [fst EXCEPT !["discogs_master"] = "raised"]
               /\ UNCHANGED reqs
          ELSE /\ fst' = [fst EXCEPT !["discogs_master"] = "waiting_master"]
               /\ reqs' = Append(reqs, Request("masters", master_id.val))
       /\ UNCHANGED <<pc, mb_release_data, tasks, status, profile, query>>

\* discogs_master gets the master
DiscogsMasterReturns(r) ==
    LET master == discogs_master(r)
    IN /\ fst["discogs_master"] = "waiting_master"
       /\ got' = [got EXCEPT !["masters"] = r]
       /\ IF master.raised
          THEN /\ fst' = [fst EXCEPT !["discogs_master"] = "raised"]
               /\ UNCHANGED tasks
          ELSE /\ fst' = [fst EXCEPT !["discogs_master"] = "done"]
               /\ tasks' = [tasks EXCEPT ![GatherSlot("discogs_master", Finished)] = master]
       /\ UNCHANGED <<pc, mb_release_data, reqs, status, profile, query>>

\* a coroutine raised: gather raises in the handler, which nothing catches
GatherRaises ==
    /\ pc = "gather"
    /\ \E f \in FetcherSet : fst[f] = "raised"
    /\ status' = 500
    /\ pc' = "done"
    /\ UNCHANGED <<mb_release_data, fst, tasks, reqs, got, profile, query>>

\* all five returned: the handler merges, and asks the cover archive when
\* Discogs gave no cover and the release group has an id
GatherReturns ==
    LET disc == Results[2]
        cover == PrimaryImage(disc)
        rg_id == Get(ReleaseGroup(mb_release_data), "id", "")
    IN /\ pc = "gather"
       /\ \A f \in FetcherSet : fst[f] = "done"
       /\ IF Personnel(disc).raised \/ cover.raised
          THEN /\ status' = 500
               /\ pc' = "done"
               /\ UNCHANGED <<reqs, profile>>
          ELSE IF cover.val = "" /\ rg_id # ""
          THEN /\ reqs' = Append(reqs, Request("coverartarchive", CaaUrl(rg_id)))
               /\ pc' = "cover"
               /\ UNCHANGED <<status, profile>>
          ELSE /\ profile' = MakeProfile(query, mb_release_data, Results, cover.val)
               /\ status' = 200
               /\ pc' = "done"
               /\ UNCHANGED reqs
       /\ UNCHANGED <<mb_release_data, fst, tasks, got, query>>

\* cover_from_caa returns or raises
CoverReturns(r) ==
    LET rg_id == Get(ReleaseGroup(mb_release_data), "id", "")
        cover == cover_from_caa(rg_id, r)
    IN /\ pc = "cover"
       /\ got' = [got EXCEPT !["coverartarchive"] = r]
       /\ IF cover.raised
          THEN /\ status' = 500
               /\ UNCHANGED profile
          ELSE /\ profile' = MakeProfile(query, mb_release_data, Results, cover.val)
               /\ status' = 200
       /\ pc' = "done"
       /\ UNCHANGED <<mb_release_data, fst, tasks, reqs, query>>

Next ==
    \/ \E album \in Albums, artist \in Artists : Album(album, artist)
    \/ \E r \in ReleaseAnswers : MbReleaseReturns(r)
    \/ \E f \in SimpleFetchers : \E r \in AnswersOf(f) : FetchReturns(f, r)
    \/ \E r \in SearchAnswers : DiscogsSearchReturns(r)
    \/ \E r \in MasterAnswers : DiscogsMasterReturns(r)
    \/ GatherRaises
    \/ GatherReturns
    \/ \E r \in CaaAnswers : CoverReturns(r)

Spec == Init /\ [][Next]_vars

(***************************************************************************)
(* The merge on its own: the handler at the point where the gather has     *)
(* returned, for a wide range of releases and masters.                     *)
(***************************************************************************)
MaxCredits == 2
MaxImages == 2
MaxDateLen == 5
MaxTail == 3

SeqsUpTo(S, n) == UNION {[1..k -> S] : k \in 0..n}

\* a dict that has key k with a value of V, or has no such key
Opt(k, V) == {EmptyDict} \cup {k :> v : v \in V}

RoleTexts == {<<" ">>, <<"s", "a", "x", " ">>}

PrimaryCredits ==
    {[name |-> "Miles Davis"], [role |-> <<"s", "a", "x">>]}
    \cup {[name |-> "Miles Davis", role |-> role] : role \in RoleTexts}

SupportingCredits ==
    {[name |-> "Bill Evans"], [role |-> <<"s", "a", "x">>]}
    \cup {[name |-> "Bill Evans", role |-> role] : role \in RoleTexts}

PersonnelMasters ==
    {a @@ e : a \in Opt("artists", SeqsUpTo(PrimaryCredits, MaxCredits)),
              e \in Opt("extraartists", SeqsUpTo(SupportingCredits, MaxCredits))}

Images ==
    {[type |-> "primary", uri |-> "https://img/1"], [type |-> "primary", uri |-> ""],
     [type |-> "secondary", uri |-> "https://img/2"], [uri |-> "https://img/3"],
     [type |-> "primary"]}

ImageMasters == Opt("images", SeqsUpTo(Images, MaxImages))

NoteChars == {"x", "\n", "\r", "\f"}

Pad(n) == [i \in 1..n |-> "x"]

PadLengths == {0} \cup ((NotesLimit - MaxTail)..(NotesLimit + 1))

NotesMasters ==
    Opt("notes", {Pad(n) \o tail : n \in PadLengths, tail \in SeqsUpTo(NoteChars, MaxTail)})

MergeMasters == PersonnelMasters \cup ImageMasters \cup NotesMasters

DatePrefixes(date) == {SubSeq(date, 1, n) : n \in 0..Min(MaxDateLen, Len(date))}

ReleaseGroups ==
    {i @@ d : i \in Opt("id", {"rg1"}),
              d \in Opt("first-release-date", DatePrefixes(Date1959))}

MergeReleases ==
    {(("id" :> "r1") @@ ("artist-credit" :> ArtistCredit)) @@ rg @@ d @@ li :
        rg \in Opt("release-group", ReleaseGroups),
        d \in Opt("date", DatePrefixes(Date1960 \o <<"-", "0", "3">>)),
        li \in Opt("label-info", {<<>>, <<("catalog-number" :> "CL 1355")>>,
                                  <<[label |-> [name |-> "Columbia"]]>>})}

MergeInputs ==
    {<<release, m>> : release \in MergeReleases, m \in {MasterFull, MasterNoImage}}
    \cup {<<release, m>> : release \in {ReleaseFull, ReleaseBare}, m \in MergeMasters}

ArtistAnswer == CHOOSE r \in ArtistAnswers : r.kind = "resp" /\ r.status = 200 /\ "area" \in DOMAIN r.data
SearchAnswer == CHOOSE r \in SearchAnswers : ~discogs_search(r).raised
TrackAnswer == CHOOSE r \in TrackAnswers : ~mb_tracklist(r).raised /\ mb_tracklist(r).val # <<>>
WikiAnswer == CHOOSE r \in WikiAnswers : ~wiki_session(r).raised /\ wiki_session(r).val # ""
WebAnswer == CHOOSE r \in WebAnswers : ~standout_from_web(r).raised /\ standout_from_web(r).val # ""

InitMerge ==
    \E album \in Albums, artist \in Artists, in \in MergeInputs :
        LET q == [album |-> album, artist |-> artist]
            release == in[1]
            master == in[2]
        IN /\ pc = "gather"
           /\ query = q
           /\ mb_release_data = release
           /\ fst = [f \in FetcherSet |-> "done"]
           /\ tasks = <<mb_artist_dates(ArtistAnswer), Return(master),
                        mb_tracklist(TrackAnswer), wiki_session(WikiAnswer),
                        standout_from_web(WebAnswer)>>
           /\ reqs = <<Request("release_search", album \o " " \o artist)>>
                     \o FirstRequests(q, release)
                     \o <<Request("masters", discogs_search(SearchAnswer).val)>>
           /\ got = [e \in Endpoints |->
                        CASE e = "release_search" -> Json(200, [releases |-> <<release>>])
                          [] e = "artist" -> ArtistAnswer
                          [] e = "database_search" -> SearchAnswer
                          [] e = "masters" -> Json(200, master)
                          [] e = "release" -> TrackAnswer
                          [] e = "page_summary" -> WikiAnswer
                          [] e = "duckduckgo" -> WebAnswer
                          [] OTHER -> NoAnswer]
           /\ status = 0
           /\ profile = NoValue

NextMerge ==
    \/ GatherReturns
    \/ \E r \in CaaAnswers : CoverReturns(r)

SpecMerge == InitMerge /\ [][NextMerge]_vars

(***************************************************************************)
(* Properties                                                              *)
(***************************************************************************)
Asked(ep) == {i \in 1..Len(reqs) : reqs[i].ep = ep}

\* the base lookup failed: no answer, no JSON, or no release in it
BaseFailed ==
    LET r == got["release_search"]
    IN \/ r.kind = "timeout"
       \/ /\ r.kind = "resp"
          /\ \/ ~r.json
             \/ "releases" \notin DOMAIN r.data
             \/ r.data["releases"] = <<>>

\* the release and the master the upstreams answered with
AnsweredRelease == got["release_search"].data["releases"][1]
AnsweredMaster == got["masters"].data

\* C1: when the base release is resolved, a timeout among the five
\* enrichment fetches leaves the response at 200 with a Profile.
C1_FetchTimeoutKeepsStatus ==
    (/\ pc = "done"
     /\ \A f \in FetcherSet : fst[f] # "unborn"
     /\ \E e \in EnrichmentEndpoints \ {"coverartarchive"} : got[e].kind = "timeout")
    => (status = 200 /\ profile # NoValue)

\* C2: a failed base lookup ends the request in 404 with no Profile, and a
\* 200 is never answered without a resolved base release.
C2_UnresolvedIs404 ==
    /\ (pc \notin {"idle", "mb_release"} /\ BaseFailed)
       => (pc = "done" /\ status = 404 /\ profile = NoValue)
    /\ status = 200
       => (got["release_search"].kind = "resp" /\ ~BaseFailed
           /\ mb_release_data = AnsweredRelease)

C2_Witness == pc = "done" /\ got["release_search"] = Timeout /\ status = 404

\* what a fetcher returns when it has nothing to report
EmptyDefault(f) ==
    CASE f = "mb_artist_dates" -> [born |-> "", died |-> "", area |-> ""]
      [] f = "discogs_master" -> EmptyDict
      [] f = "mb_tracklist" -> <<>>
      [] f = "wiki_session" -> ""
      [] f = "standout_from_web" -> ""

\* the JSON lacks what the fetcher reads
LacksFields(f, data) ==
    CASE f = "mb_artist_dates" -> "life-span" \notin DOMAIN data /\ "area" \notin DOMAIN data
      [] f = "discogs_master" -> Get(data, "results", <<>>) = <<>>
      [] f = "mb_tracklist" ->
            \/ "media" \notin DOMAIN data
            \/ \E i \in 1..Len(data["media"]) :
                  \E j \in 1..Len(Get(data["media"][i], "tracks", <<>>)) :
                      ~({"position", "title"} \subseteq DOMAIN data["media"][i]["tracks"][j])
      [] f = "wiki_session" -> "extract" \notin DOMAIN data
      [] f = "standout_from_web" -> FALSE

\* C3: a fetcher whose upstream answers with a non-200 status or with JSON
\* lacking the fields it reads raises nothing and returns its empty default.
C3_FetchersTolerateBadAnswers ==
    \A f \in FetcherSet :
        LET r == got[EndpointOf(f)]
        IN (r.kind = "resp" /\ r.json /\ (r.status # 200 \/ LacksFields(f, r.data)))
           => /\ fst[f] # "raised"
              /\ fst[f] = "done" => tasks[Position(f)] = Return(EmptyDefault(f))

\* C4: the personnel of a returned Profile is never empty: the primary
\* credits followed by the supporting credits, or the placeholder alone
\* when the master has neither.
C4_PersonnelNeverEmpty ==
    status = 200 =>
        LET artists == Get(AnsweredMaster, "artists", <<>>)
            extraartists == Get(AnsweredMaster, "extraartists", <<>>)
            personnel == profile.personnel
        IN /\ personnel # <<>>
           /\ IF artists = <<>> /\ extraartists = <<>>
              THEN personnel = <<"Personnel not listed">>
              ELSE /\ Len(personnel) = Len(artists) + Len(extraartists)
                   /\ \A i \in 1..Len(artists) : personnel[i] = PrimaryCredit(artists[i])
                   /\ \A i \in 1..Len(extraartists) :
                          personnel[Len(artists) + i] = SupportingCredit(extraartists[i])

C4_Witness ==
    /\ status = 200
    /\ "artists" \notin DOMAIN AnsweredMaster
    /\ Get(AnsweredMaster, "extraartists", <<"x">>) = <<>>
    /\ profile.personnel = <<"Personnel not listed">>

\* C5: the long_text of a returned Profile has at most 2000 characters and
\* no newline among them.
C5_LongTextBounded ==
    status = 200 =>
        /\ Len(profile.long_text) <= NotesLimit
        /\ \A i \in 1..Len(profile.long_text) : profile.long_text[i] # "\n"

C5_Witness ==
    LET notes == Get(AnsweredMaster, "notes", <<>>)
    IN /\ status = 200
       /\ Len(notes) > NotesLimit
       /\ notes[NotesLimit] = "\n"
       /\ Len(profile.long_text) = NotesLimit

\* the first image of type primary among the master's images, 0 when none
FirstPrimary ==
    LET images == Get(AnsweredMaster, "images", <<>>)
        primaries == {i \in 1..Len(images) : Get(images[i], "type", "") = "primary"}
    IN IF primaries = {} THEN 0 ELSE CHOOSE i \in primaries : \A j \in primaries : i <= j

\* the cover is empty or the cover-archive URL of the release group, and
\* that URL only when the request for it answered 200
CoverFellBack ==
    LET rg == IF "release-group" \in DOMAIN AnsweredRelease
              THEN AnsweredRelease["release-group"] ELSE EmptyDict
        rg_id == IF "id" \in DOMAIN rg THEN rg["id"] ELSE ""
    IN /\ profile.cover_url \in {"", CaaUrl(rg_id)}
       /\ profile.cover_url # "" =>
             /\ rg_id # ""
             /\ \E i \in 1..Len(reqs) : reqs[i] = Request("coverartarchive", profile.cover_url)
             /\ got["coverartarchive"].kind = "resp"
             /\ got["coverartarchive"].status = 200

\* C6 as stated: without a primary image the cover falls back; with one,
\* the cover is the first primary image's URI and the cover archive is
\* not asked.
C6_CoverAsClaimed ==
    status = 200 =>
        IF FirstPrimary = 0 THEN CoverFellBack
        ELSE /\ profile.cover_url = AnsweredMaster["images"][FirstPrimary]["uri"]
             /\ Asked("coverartarchive") = {}

\* C6: without a primary image, or when the first primary image's URI is
\* empty, the cover falls back; otherwise the cover is the first primary
\* image's URI and the cover archive is not asked.
C6_CoverFallback ==
    status = 200 =>
        IF FirstPrimary = 0 \/ AnsweredMaster["images"][FirstPrimary]["uri"] = ""
        THEN CoverFellBack
        ELSE /\ profile.cover_url = AnsweredMaster["images"][FirstPrimary]["uri"]
             /\ Asked("coverartarchive") = {}

C6_Witness ==
    /\ status = 200
    /\ FirstPrimary = 0
    /\ Asked("coverartarchive") # {}
    /\ profile.cover_url = CaaUrl("rg1")

\* C7: the year is the first four characters of the release group's
\* first-release date when that is non-empty, else of the release's own
\* date, else empty.
C7_YearPrefersReleaseGroup ==
    status = 200 =>
        LET rg == IF "release-group" \in DOMAIN AnsweredRelease
                  THEN AnsweredRelease["release-group"] ELSE EmptyDict
            first == IF "first-release-date" \in DOMAIN rg
                     THEN rg["first-release-date"] ELSE <<>>
            own == IF "date" \in DOMAIN AnsweredRelease THEN AnsweredRelease["date"] ELSE <<>>
        IN profile.album.year =
              IF first # <<>> THEN Str(SubSeq(first, 1, Min(4, Len(first))))
              ELSE IF own # <<>> THEN Str(SubSeq(own, 1, Min(4, Len(own))))
              ELSE ""

C7_Witness ==
    /\ status = 200
    /\ "release-group" \in DOMAIN AnsweredRelease
    /\ Get(AnsweredRelease["release-group"], "first-release-date", <<>>) = <<"1", "9", "5">>
    /\ Get(AnsweredRelease, "date", <<>>) = Date1960
    /\ profile.album.year = "195"

\* C8: no upstream endpoint is asked more than once in a request.
C8_NoRetry == \A e \in Endpoints : Cardinality(Asked(e)) <= 1

C8_Witness ==
    /\ pc = "done"
    /\ got["artist"] = Timeout
    /\ got["database_search"].kind = "resp" /\ got["database_search"].status = 401
    /\ \A f \in FetcherSet : fst[f] \in {"done", "raised"}

\* C9: no enrichment request is issued before the base lookup has resolved
\* a release, none at all when the request ends in 404, and the master is
\* asked for only after the search has returned a result.
C9_EnrichmentAfterBase ==
    /\ (\E e \in EnrichmentEndpoints : Asked(e) # {})
       => /\ got["release_search"].kind = "resp"
          /\ ~BaseFailed
          /\ mb_release_data = AnsweredRelease
          /\ \A e \in EnrichmentEndpoints : \A i \in Asked(e) :
                 \A j \in Asked("release_search") : j < i
    /\ status = 404 => \A i \in 1..Len(reqs) : reqs[i].ep = "release_search"
    /\ Asked("masters") # {}
       => /\ got["database_search"].kind = "resp"
          /\ got["database_search"].json
          /\ Get(got["database_search"].data, "results", <<>>) # <<>>
          /\ \A i \in Asked("masters") : \A j \in Asked("database_search") : j < i

C9_Witness == Asked("masters") # {} /\ pc = "done" /\ status = 200

\* C10: whatever the order in which the five fetches complete, each result
\* is filed under its own position and the Profile is the one the answers
\* determine.
C10_OrderIndependent ==
    /\ \A f \in SimpleFetchers :
           fst[f] = "done" => tasks[Position(f)] = Fetch(f, got[EndpointOf(f)])
    /\ fst["discogs_master"] = "done"
           => tasks[Position("discogs_master")] = Return(AnsweredMaster)
    /\ status = 200 =>
           profile = MakeProfile(query, AnsweredRelease,
                                 <<mb_artist_dates(got["artist"]).val,
                                   AnsweredMaster,
                                   mb_tracklist(got["release"]).val,
                                   wiki_session(got["page_summary"]).val,
                                   standout_from_web(got["duckduckgo"]).val>>,
                                 profile.cover_url)

C10_Witness ==
    /\ status = 200
    /\ profile.session_info # ""
    /\ profile.standout_notes # ""
    /\ profile.session_info # profile.standout_notes
    /\ profile.tracks # <<>>

====
